---- MODULE Spec2Model ----
(***************************************************************************)
(* The side view generator of NATuG (computers/side_view/side_view.py):    *)
(* SideView.compute() and the three sequence builders it calls, _angles,   *)
(* _x_coords and _z_coords.                                                *)
(*                                                                         *)
(* Numbers.  The program computes in floating point; the model computes    *)
(* the same expressions exactly.  Angles are whole numbers of 1/10000      *)
(* degree (Deg), x coordinates are reduced fractions <<num, den>>, and z   *)
(* coordinates are whole numbers of z units: the inputs are drawn so that  *)
(* Z_b = (T * H) / B is a whole number of them.  Where the program's       *)
(* rounding puts a value a few ulp to either side of a threshold (a z of   *)
(* -1e-15 where the exact value is 0), the model follows the exact value.  *)
(*                                                                         *)
(* Iterators.  An itertools.count object is the record [start, n]: the     *)
(* value it was created with and how many values have been taken from it;  *)
(* its next value is start + n * step.  An itertools.cycle object is       *)
(* [items, n].  Taking values (next, zip, islice) adds to n.               *)
(*                                                                         *)
(* Exceptions.  What SideView raises ends its run at pc = "raised" with    *)
(* the exception's name in error; nothing is returned then.                *)
(*                                                                         *)
(* Beside the generator the module holds the Domain class                  *)
(* (structures/domains/domain.py: the assertions of __init__,              *)
(* theta_s_multiple, left_strand, right_strand), the domains tab           *)
(* (ui/config/tabs/domains/panel.py: _push_updates and the slots that call *)
(* it), the side view panel (ui/panels/side_view/panel.py:                 *)
(* points_clicked), the config panel (ui/config/panel.py: warn_and_refresh *)
(* and the buttons of its RefreshConfirmer) and the domains table          *)
(* (ui/config/tabs/domains/tables/counts.py: the smooth theta_m arrows).   *)
(* Each has its own variables and its own specification; the others stay   *)
(* as they start.  SpecLive is Spec with the fairness of a program that    *)
(* runs on: it carries the termination of compute().                       *)
(***************************************************************************)
EXTENDS Integers, Sequences, FiniteSets, TLC

\* ------------------------------------------------------------------ bounds
MaxDomains == 2
MaxB == 3
MaxCount == 3
MaxEvents == 3
MaxContent == 1
MaxClicks == 4
MaxWorkerSteps == 2
MaxRequests == 5
MaxRows == 3
MaxArrows == 2

\* --------------------------------------------------------------- constants
UP == 0
DOWN == 1
LEFT == 0
RIGHT == 1

Deg(d) == d * 10000

VARIABLES
    domains,            \* self.domains: sequence of Domain records
    T, B, H,            \* self.T, self.B, self.H
    Z_s,                \* self.Z_s
    theta_s, theta_b, theta_c,
    pc,                 \* position inside compute()
    angles,             \* compute(): angles      = self._angles()
    x_coords,           \* compute(): x_coords    = self._x_coords()
    z_coords,           \* _z_coords(): z_coords, returned to compute()
    z_index,            \* _z_coords(): index of the loop of line 179
    NEMids,             \* compute(): NEMids, the container returned
    index,              \* compute(): index of the loop of line 77
    strand_direction,   \* compute(): strand_direction of the loop of line 78
    i,                  \* compute(): i, the accepted points of this strand
    error,              \* the exception SideView has raised, or "None"
    earlier,            \* the container an earlier compute() returned
    parent,             \* Domain.parent, the same for every domain of the list
    called,             \* what Domain.__init__ and the Domain properties gave
    _pushing_updates,   \* DomainsPanel._pushing_updates
    current,            \* runner.managers.domains.current
    table,              \* what the domains table and settings area show
    auto_antiparallel,  \* DomainsPanel.auto_antiparallel is checked
    updated,            \* how often DomainsPanel.updated was emitted
    accepted,           \* how often RefreshConfirmer.run returned True
    declined,           \* how often RefreshConfirmer.run returned False
    pending,            \* the slot whose _push_updates call awaits the answer
    events,             \* how many signals have reached the panel
    push_error,         \* where a _push_updates call raised, or "None"
    toolbar,            \* runner.managers.toolbar.current
    click_pc,           \* position inside Panel.points_clicked
    worker,             \* points_clicked(): worker
    worker_thread,      \* the thread that executes worker
    worker_steps,       \* how far the worker has come
    handled,            \* how many point clicks were handled
    interdomain,        \* some strand of strands.current is interdomain
    dialog,             \* ui.config.panel: the global dialog
    shown,              \* how many RefreshConfirmer dialogs are visible
    function_calls,     \* how often an update function was called
    recomputed,         \* how often strands.recompute was called
    side_view_refreshed, \* how often window.side_view.refresh was called
    top_view_refreshed, \* how often window.top_view.refresh was called
    last,               \* the handler of the config panel that ran last
    requests,           \* how many events have reached the config panel
    rows,               \* DomainsAnglesTable.rows: each row's theta_m_multiple
    arrows              \* how many theta_m arrow clicks the table has taken

inputs == <<domains, T, B, H, Z_s, theta_s, theta_b, theta_c>>
side_view_vars == <<pc, angles, x_coords, z_coords, z_index, NEMids, index,
                    strand_direction, i, error, earlier>>
domain_vars == <<parent, called>>
panel_vars == <<_pushing_updates, current, table, auto_antiparallel, updated,
                accepted, declined, pending, events, push_error>>
click_vars == <<toolbar, click_pc, worker, worker_thread, worker_steps,
                handled>>
plots == <<function_calls, recomputed, side_view_refreshed,
           top_view_refreshed>>
config_vars == <<interdomain, dialog, shown, plots, last, requests>>
table_vars == <<rows, arrows>>
ui_vars == <<panel_vars, click_vars, config_vars, table_vars>>
elsewhere == <<domain_vars, ui_vars>>
vars == <<inputs, side_view_vars, elsewhere>>

\* ----------------------------------------------------------------- helpers
\* helpers.inverse: int(not bool(integer))
inverse(integer) == IF integer = 0 THEN 1 ELSE 0

\* self.strand_directions, in iteration order
strand_directions == <<UP, DOWN>>

\* Positions of a list of domains, as enumerate() numbers them
Indices == 0 .. (Len(domains) - 1)

\* self.domains[k], with Python's wrap of a negative index
DomainAt(k) == IF k < 0 THEN domains[Len(domains) + k + 1] ELSE domains[k + 1]

\* domain.helix_joints[side]
HelixJoint(domain, side) == domain.helix_joints[side + 1]

\* container[k][j] for one of the two-slot lists of a DomainsContainer, with
\* Python's wrap of a negative index: the slot that j names
Slot(j) == IF j < 0 THEN j + 2 ELSE j

\* DomainsContainer(count): one [[], []] per domain
DomainsContainer(count) ==
    [k \in 0 .. (count - 1) |-> [d \in {UP, DOWN} |-> <<>>]]

\* self.Z_b = (T * H) / B
Z_b == (T * H) \div B

\* ------------------------------------------------------- exact fractions
RECURSIVE GCD(_, _)
GCD(a, b) == IF b = 0 THEN a ELSE GCD(b, a % b)

\* the fraction n/d (d > 0, n >= 0) in lowest terms; a denominator of 0 is
\* kept: it stands for the ZeroDivisionError that n / 0 raises
Frac(n, d) ==
    IF d = 0 THEN <<1, 0>>
    ELSE LET g == GCD(n, d) IN <<n \div g, d \div g>>

\* a/b < c/d for a, c >= 0 and b, d > 0, without forming a product
RECURSIVE FracLess(_, _, _, _)
FracLess(a, b, c, d) ==
    LET qa == a \div b
        qc == c \div d
        ra == a % b
        rc == c % d
    IN  IF qa # qc THEN qa < qc
        ELSE IF rc = 0 THEN FALSE
        ELSE IF ra = 0 THEN TRUE
        ELSE FracLess(d, rc, b, ra)

Less(p, q) == FracLess(p[1], p[2], q[1], q[2])

\* p + k and |p - k| for a fraction p and an integer k
PlusInt(p, k) == <<p[1] + k * p[2], p[2]>>
AbsMinusInt(p, k) ==
    LET n == p[1] - k * p[2]
    IN  <<IF n < 0 THEN 0 - n ELSE n, p[2]>>

\* ------------------------------------------------------------- _angles
\* AngleStart with the zeroed strand taken from the right joint
AngleStartRight(k, direction) ==
    IF direction = HelixJoint(DomainAt(k), RIGHT) THEN 0 ELSE 0 - theta_s

\* the start of the itertools.count that _angles leaves in a slot: line 123
\* assigns slot inverse(zeroed_strand) after line 119 assigned zeroed_strand
AngleStart(k, direction) ==
    LET zeroed_strand == HelixJoint(DomainAt(k), LEFT)
    IN  IF direction = inverse(zeroed_strand) THEN 0 - theta_s ELSE 0

_angles ==
    [k \in Indices |->
        [d \in {UP, DOWN} |-> [start |-> AngleStart(k, d), n |-> 0]]]

\* next(count): the value an itertools.count yields next
CountNext(c, step) == c.start + c.n * step

\* ------------------------------------------------------------ _x_coords
\* XCoord without line 155, the offset by the domain's position
XCoordNoOffset(k, angle) ==
    LET theta_interior == DomainAt(k).theta_interior_multiple * theta_c
        theta_exterior == Deg(360) - theta_interior
        NEMid_angle == angle % Deg(360)
    IN  IF NEMid_angle < theta_exterior
        THEN Frac(NEMid_angle, theta_exterior)
        ELSE Frac(Deg(360) - NEMid_angle, theta_interior)

\* lines 145-155: the x coord of one NEMid angle of the domain at position k
XCoord(k, angle) ==
    LET theta_interior == DomainAt(k).theta_interior_multiple * theta_c
        theta_exterior == Deg(360) - theta_interior
        NEMid_angle == angle % Deg(360)
        x_coord == IF NEMid_angle < theta_exterior
                   THEN Frac(NEMid_angle, theta_exterior)
                   ELSE Frac(Deg(360) - NEMid_angle, theta_interior)
    IN  PlusInt(x_coord, k)

\* XList with one x coord too many, range(B + 1)
XListOneMore(k, direction) ==
    [j \in 1 .. (B + 1) |->
        XCoord(k, CountNext([start |-> AngleStart(k, direction), n |-> j - 1],
                            theta_b))]

\* lines 140-158: the B x coords generated for a strand, from a fresh _angles()
XList(k, direction) ==
    [j \in 1 .. B |->
        XCoord(k, CountNext([start |-> AngleStart(k, direction), n |-> j - 1],
                            theta_b))]

_x_coords ==
    [k \in Indices |->
        [d \in {UP, DOWN} |-> [items |-> XList(k, d), n |-> 0]]]

\* next(cycle): the value an itertools.cycle yields next
CycleNext(c) == c.items[(c.n % Len(c.items)) + 1]

\* islice(cycle, 0, stop) read into a tuple: the next stop values of a cycle
IsliceCycle(c, stop) ==
    [j \in 1 .. stop |-> CycleNext([items |-> c.items, n |-> c.n + j - 1])]

\* islice(count, 0, stop) read into a tuple: the next stop values of a count
IsliceCount(c, step, stop) ==
    [j \in 1 .. stop |-> CountNext([start |-> c.start, n |-> c.n + j - 1], step)]

\* the iterator after stop values were taken from it
Advance(c, stop) == [c EXCEPT !.n = @ + stop]

\* ------------------------------------------------------------ _z_coords
\* max(xs): an element no other element exceeds
MaxOf(xs) ==
    CHOOSE v \in {xs[j] : j \in 1 .. Len(xs)} :
        \A j \in 1 .. Len(xs) : ~Less(v, xs[j])

\* IndexOf giving the last position holding v
IndexOfLast(xs, v) ==
    CHOOSE j \in 0 .. (Len(xs) - 1) :
        /\ xs[j + 1] = v
        /\ \A h \in (j + 1) .. (Len(xs) - 1) : xs[h + 1] # v

\* xs.index(v): the first position (from 0) holding v
IndexOf(xs, v) ==
    CHOOSE j \in 0 .. (Len(xs) - 1) :
        /\ xs[j + 1] = v
        /\ \A h \in 0 .. (j - 1) : xs[h + 1] # v

\* lines 213-216: move the initial z coord down by whole offset intervals
RECURSIVE WhilePositive(_, _)
WhilePositive(initial_z_coord, offset_interval) ==
    IF initial_z_coord > 0
    THEN WhilePositive(initial_z_coord - offset_interval, offset_interval)
    ELSE initial_z_coord

\* MoveDown without line 216, the decrement after the loop
MoveDownLoopOnly(initial_z_coord) ==
    WhilePositive(initial_z_coord, Z_b * B)

\* MoveDown by steps of Z_b instead of Z_b * B
MoveDownByStep(initial_z_coord) ==
    WhilePositive(initial_z_coord, Z_b) - Z_b

MoveDown(initial_z_coord) ==
    LET offset_interval == Z_b * B
    IN  WhilePositive(initial_z_coord, offset_interval) - offset_interval

\* lines 167-177: the x coords _z_coords works with, B per strand as a tuple
XTuple(k, direction) == IsliceCycle(_x_coords[k][direction], B)

\* SeedZ reading the strand of the previous domain's left joint
SeedZLeftJoint(k, zs) ==
    LET zeroed_strand == Slot(HelixJoint(DomainAt(k - 1), LEFT))
        previous_z_coords == IsliceCount(zs[k - 1][zeroed_strand], Z_b, B)
        xs == XTuple(k - 1, zeroed_strand)
    IN  previous_z_coords[IndexOf(xs, MaxOf(xs)) + 1]

\* lines 182, 195-209: the z coord of the previous domain at its maximal x
SeedZ(k, zs) ==
    LET zeroed_strand == Slot(HelixJoint(DomainAt(k - 1), RIGHT))
        previous_z_coords == IsliceCount(zs[k - 1][zeroed_strand], Z_b, B)
        xs == XTuple(k - 1, zeroed_strand)
    IN  previous_z_coords[IndexOf(xs, MaxOf(xs)) + 1]

\* InitialZCoord with every domain anchored at 0, as domain 0 is
InitialZCoordAnchored(k, zs) == MoveDown(0)

\* lines 185-216
InitialZCoord(k, zs) == MoveDown(IF k = 0 THEN 0 ELSE SeedZ(k, zs))

\* ------------------------------------------------------------------ inputs
\* Domain(index, theta_interior_multiple, helix_joints, count)
Domain(theta_interior_multiple, helix_joints, count) ==
    [theta_interior_multiple |-> theta_interior_multiple,
     helix_joints |-> helix_joints,
     count |-> count]

\* interior angles of 90 and 180 degrees with the theta_c of Init
Multiples == {3, 6}
Joints == {<<l, r>> : l \in {UP, DOWN}, r \in {UP, DOWN}}

\* rings of 1..MaxDomains domains that share one count, as the default ring does
DomainLists ==
    UNION {[1 .. n -> {Domain(m, hj, c) : m \in Multiples, hj \in Joints}] :
              n \in 1 .. MaxDomains, c \in {0, 1, MaxCount}}

\* what compute() has not assigned yet
Unset == <<>>

\* Domain.parent: None, or a Subunit whose .strands is None or a Domains
\* object, which tests true or false as its class decides
NoParent == [none |-> TRUE, strands |-> "None"]
Parents ==
    {NoParent} \cup
    {[none |-> FALSE, strands |-> st] : st \in {"None", "falsy", "truthy"}}

\* nothing of Domain has been called
Uncalled ==
    [__init__ |-> Unset, theta_s_multiple |-> Unset,
     left_strand |-> Unset, right_strand |-> Unset]

\* the domains are built and belong to no Subunit
Built == parent = NoParent /\ called = Uncalled

\* no local of compute() is assigned, nothing was raised or returned
Locals ==
    /\ angles = Unset
    /\ x_coords = Unset
    /\ z_coords = Unset
    /\ z_index = 0
    /\ NEMids = Unset
    /\ index = 0
    /\ strand_direction = UP
    /\ i = 0
    /\ error = "None"
    /\ earlier = Unset

\* the SideView is built and compute() is called
Start == pc = "compute" /\ Locals

\* what the table and the domains manager can hold
Contents == 0 .. MaxContent

\* ui/config/tabs/domains/panel.py lines 37-55: DomainsPanel.__init__ has
\* dumped the current domains into the table; no signal has arrived
PanelStart ==
    /\ _pushing_updates = FALSE
    /\ current = 0
    /\ table = 0
    /\ auto_antiparallel = FALSE
    /\ updated = 0
    /\ accepted = 0
    /\ declined = 0
    /\ pending = "None"
    /\ events = 0
    /\ push_error = "None"

\* constants.toolbar: the modes points_clicked has a worker for
INFORMER == "INFORMER"
LINKER == "LINKER"
JUNCTER == "JUNCTER"
NICKER == "NICKER"
HIGHLIGHTER == "HIGHLIGHTER"

\* the toolbar modes, with one that no branch of points_clicked names
Modes == {INFORMER, LINKER, JUNCTER, NICKER, HIGHLIGHTER, "OTHER"}

\* ui/panels/side_view/panel.py lines 30-55: the side view panel is shown and
\* no point has been clicked
ClickStart ==
    /\ toolbar = INFORMER
    /\ click_pc = "idle"
    /\ worker = "None"
    /\ worker_thread = "None"
    /\ worker_steps = 0
    /\ handled = 0

\* ui/config/panel.py line 17 and runner/managers/strands.py lines 24-25: no
\* dialog yet, and the strands setup() computed, none of them made by the user
ConfigStart ==
    /\ interdomain = FALSE
    /\ dialog = "None"
    /\ shown = 0
    /\ function_calls = 0
    /\ recomputed = 0
    /\ side_view_refreshed = 0
    /\ top_view_refreshed = 0
    /\ last = "None"
    /\ requests = 0

\* counts.py line 74: the table before domains are dumped into it
TableStart == rows = <<>> /\ arrows = 0

\* the window as it opens
UIStart == PanelStart /\ ClickStart /\ ConfigStart /\ TableStart

\* SideView(domains, T, B, H, Z_s, theta_s, theta_b, theta_c): Z_b is 2 z
\* units; Z_s is below zero, zero, or one and a half steps of Z_b; B steps of
\* theta_b are a whole turn (120 degrees with B = 3, 90 with B = 4) or not
Init ==
    /\ domains \in DomainLists
    /\ B \in 1 .. MaxB
    /\ T = 2
    /\ H = B
    /\ Z_s \in {0 - 7, 0, 3}
    /\ theta_b \in {Deg(90), Deg(120)}
    /\ theta_s = Deg(10)
    /\ theta_c = Deg(30)
    /\ Start
    /\ Built
    /\ UIStart

\* ----------------------------------------------------------------- compute
\* ComputeRaised with an islice that takes a negative stop, as a slice would
ComputeRaisedAnyStop ==
    IF \E k \in Indices : HelixJoint(DomainAt(k), LEFT) \notin (0 - 2) .. 1
    THEN "IndexError"
    ELSE IF B > 0 /\ \E k \in Indices : HelixJoint(DomainAt(k), LEFT) = 0 - 2
    THEN "TypeError"
    ELSE IF \E k \in Indices : \E d \in {UP, DOWN} : \E j \in 1 .. B :
                XList(k, d)[j][2] = 0
    THEN "ZeroDivisionError"
    ELSE "None"

\* what lines 73-75 raise before the loop of _z_coords: line 117 stores into
\* a slot that a two-slot list does not have; line 143 calls next() on the
\* empty list that a left joint of -2 leaves in slot 1; lines 150-153 divide
\* by zero; islice at line 171 refuses a negative stop
ComputeRaised ==
    IF \E k \in Indices : HelixJoint(DomainAt(k), LEFT) \notin (0 - 2) .. 1
    THEN "IndexError"
    ELSE IF B > 0 /\ \E k \in Indices : HelixJoint(DomainAt(k), LEFT) = 0 - 2
    THEN "TypeError"
    ELSE IF \E k \in Indices : \E d \in {UP, DOWN} : \E j \in 1 .. B :
                XList(k, d)[j][2] = 0
    THEN "ZeroDivisionError"
    ELSE IF B < 0 /\ Len(domains) > 0
    THEN "ValueError"
    ELSE "None"

\* what a pass of the loop of _z_coords raises: line 196 reads a slot that a
\* two-slot list does not have
ZCoordsRaised ==
    IF z_index > 0
       /\ HelixJoint(DomainAt(z_index - 1), RIGHT) \notin (0 - 2) .. 1
    THEN "IndexError"
    ELSE "None"

\* lines 71-75, up to the loop of _z_coords
Compute ==
    /\ pc = "compute"
    /\ ComputeRaised = "None"
    /\ NEMids' = DomainsContainer(Len(domains))
    /\ angles' = _angles
    /\ x_coords' = _x_coords
    /\ z_coords' = DomainsContainer(Len(domains))
    /\ z_index' = 0
    /\ pc' = "_z_coords"
    /\ UNCHANGED <<inputs, elsewhere, error, earlier, index,
                   strand_direction, i>>

\* lines 179-233: one pass of the loop of _z_coords, for the domain z_index
ZCoordsStep ==
    /\ pc = "_z_coords"
    /\ z_index < Len(domains)
    /\ ZCoordsRaised = "None"
    /\ LET previous == Slot(HelixJoint(DomainAt(z_index - 1), RIGHT))
           initial_z_coord == InitialZCoord(z_index, z_coords)
           zeroed_strand == HelixJoint(DomainAt(z_index), LEFT)
           \* line 196: islice takes B values from the previous domain's count
           taken == IF z_index = 0 THEN z_coords
                    ELSE [z_coords EXCEPT ![z_index - 1][previous] = Advance(@, B)]
       IN  z_coords' =
             [taken EXCEPT
                ![z_index] =
                    [d \in {UP, DOWN} |->
                        IF d = inverse(zeroed_strand)
                        THEN [start |-> initial_z_coord - Z_s, n |-> 0]
                        ELSE [start |-> initial_z_coord, n |-> 0]]]
    /\ z_index' = z_index + 1
    /\ UNCHANGED <<inputs, elsewhere, error, earlier, pc, angles, x_coords,
                   NEMids, index, strand_direction, i>>

\* line 235 and lines 77-79: _z_coords returns, compute() starts its loops
ZCoordsReturn ==
    /\ pc = "_z_coords"
    /\ z_index = Len(domains)
    /\ pc' = IF Len(domains) = 0 THEN "done" ELSE "zip"
    /\ index' = 0
    /\ strand_direction' = strand_directions[1]
    /\ i' = 0
    /\ UNCHANGED <<inputs, elsewhere, error, earlier, angles, x_coords,
                   z_coords, z_index, NEMids>>

\* line 80: the triple zip yields next for the strand compute() is at
angle == CountNext(angles[index][strand_direction], theta_b)
x_coord == CycleNext(x_coords[index][strand_direction])
z_coord == CountNext(z_coords[index][strand_direction], Z_b)

\* zip yielding the triple it yielded before: no iterator moves on
ZipTakenNothing == UNCHANGED <<angles, x_coords, z_coords>>

\* zip has taken one value from each of the three iterators
ZipTaken ==
    /\ angles' = [angles EXCEPT ![index][strand_direction] = Advance(@, 1)]
    /\ x_coords' = [x_coords EXCEPT ![index][strand_direction] = Advance(@, 1)]
    /\ z_coords' = [z_coords EXCEPT ![index][strand_direction] = Advance(@, 1)]

\* BelowZero one step of Z_b too low
BelowZeroOneStep == z_coord < 0 - Z_b

\* line 86: z_coord < 0
BelowZero == z_coord < 0

\* CountReached one point late
CountReachedLate == i = DomainAt(index).count + 1

\* line 88: i == domain.count
CountReached == i = DomainAt(index).count

\* lines 86-87: a triple below zero is passed over
Skip ==
    /\ pc = "zip"
    /\ BelowZero
    /\ ZipTaken
    /\ UNCHANGED <<inputs, elsewhere, error, earlier, pc, z_index, NEMids,
                   index, strand_direction, i>>

\* lines 88-89 and the loop headers 77-79: the strand is complete
Break ==
    /\ pc = "zip"
    /\ ~BelowZero
    /\ CountReached
    /\ ZipTaken
    /\ i' = 0
    /\ IF strand_direction = strand_directions[1]
       THEN /\ strand_direction' = strand_directions[2]
            /\ UNCHANGED <<index, pc>>
       ELSE /\ strand_direction' = strand_directions[1]
            /\ index' = index + 1
            /\ pc' = IF index + 1 = Len(domains) THEN "done" ELSE "zip"
    /\ UNCHANGED <<inputs, elsewhere, error, earlier, z_index, NEMids>>

\* the integer nearest to a fraction x >= 0, halves to the even neighbour
Round(x) ==
    LET whole == x[1] \div x[2]
        rest == x[1] % x[2]
    IN  IF 2 * rest < x[2] THEN whole
        ELSE IF 2 * rest > x[2] THEN whole + 1
        ELSE IF whole % 2 = 0 THEN whole ELSE whole + 1

\* Junctable on any domain line, the nearest one
JunctableAnyLine(x, k) == Less(AbsMinusInt(x, Round(x)), <<1, 1000>>)

\* lines 95-98
Junctable(x, k) == Less(AbsMinusInt(x, k), <<1, 1000>>)

\* NEMid(x_coord, z_coord, angle, junctable=junctable); k is not a field of
\* the program's NEMid: it records how many triples zip had yielded before
NEMid(x, z, a, junctable, k) ==
    [x |-> x, z |-> z, angle |-> a, junctable |-> junctable, k |-> k]

\* Appended putting the point in front, as appendleft would
AppendedLeft(points, point) == <<point>> \o points

\* line 104: NEMids[index][strand_direction].append(_NEMid)
Appended(points, point) == Append(points, point)

\* lines 90-104: the triple becomes a NEMid of the strand
Emit ==
    /\ pc = "zip"
    /\ ~BelowZero
    /\ ~CountReached
    /\ ZipTaken
    /\ i' = i + 1
    /\ NEMids' = [NEMids EXCEPT ![index][strand_direction] =
                    Appended(@, NEMid(x_coord, z_coord, angle,
                                      Junctable(x_coord, index),
                                      angles[index][strand_direction].n))]
    /\ UNCHANGED <<inputs, elsewhere, error, earlier, pc, z_index, index,
                   strand_direction>>

Next == Compute \/ ZCoordsStep \/ ZCoordsReturn \/ Skip \/ Break \/ Emit

Spec == Init /\ [][Next]_vars

\* Inputs with Z_s >= 0, theta_b = 90 degrees and interior angles of 90
\* degrees: the x coords decide no loop. compute() runs on one thread and runs
\* on until it returns: a step that is possible is taken.
InitLive ==
    /\ Init
    /\ Z_s >= 0
    /\ theta_b = Deg(90)
    /\ \A k \in Indices : DomainAt(k).theta_interior_multiple = 3

\* ENABLED <<ZCoordsStep>>_vars written out: the step always changes z_index
ZCoordsStepEnabled ==
    pc = "_z_coords" /\ z_index < Len(domains) /\ ZCoordsRaised = "None"

\* WF_vars(ZCoordsStep) with its ENABLED written out
ZCoordsStepFair ==
    []<>(~ZCoordsStepEnabled) \/ []<><<ZCoordsStep>>_vars

SpecLive ==
    /\ InitLive /\ [][Next]_vars
    /\ WF_vars(Compute \/ ZCoordsReturn \/ Skip \/ Break \/ Emit)
    /\ ZCoordsStepFair

\* ------------------------------------------------------- compute() again
\* ComputeAgain with the iterators of the earlier run kept where they are
ComputeAgainKeepingIterators ==
    /\ pc = "done"
    /\ earlier = Unset
    /\ earlier' = NEMids
    /\ pc' = "zip"
    /\ NEMids' = DomainsContainer(Len(domains))
    /\ index' = 0
    /\ strand_direction' = strand_directions[1]
    /\ i' = 0
    /\ UNCHANGED <<inputs, elsewhere, error, angles, x_coords, z_coords,
                   z_index>>

\* compute() is called once more on the same SideView; the caller holds the
\* container of the first call
ComputeAgain ==
    /\ pc = "done"
    /\ earlier = Unset
    /\ earlier' = NEMids
    /\ pc' = "compute"
    /\ UNCHANGED <<inputs, elsewhere, error, angles, x_coords, z_coords,
                   z_index, NEMids, index, strand_direction, i>>

\* lines 49-62: a second SideView is built from the same domains and profile
\* values; the caller holds the container of the first object
BuildAgain ==
    /\ pc = "done"
    /\ earlier = Unset
    /\ earlier' = NEMids
    /\ pc' = "compute"
    /\ angles' = Unset
    /\ x_coords' = Unset
    /\ z_coords' = Unset
    /\ z_index' = 0
    /\ NEMids' = Unset
    /\ index' = 0
    /\ strand_direction' = UP
    /\ i' = 0
    /\ UNCHANGED <<inputs, elsewhere, error>>

NextTwice == Next \/ ComputeAgain \/ BuildAgain

\* the rings and profiles of Init with a quarter turn per base and Z_s not 0
InitTwice == Init /\ theta_b = Deg(90) /\ Z_s # 0

SpecTwice == InitTwice /\ [][NextTwice]_vars

\* ------------------------------------------------------------------ Domain
\* domain.py lines 176-180: the assertions of Domain.__init__ on the joints
DomainInitRaised(domain) ==
    IF HelixJoint(domain, LEFT) \notin {0, 1} THEN "AssertionError"
    ELSE IF HelixJoint(domain, RIGHT) \notin {0, 1} THEN "AssertionError"
    ELSE "None"

\* domain.py lines 265-285: Domain.theta_s_multiple
theta_s_multiple(domain) ==
    LET helix_joints == <<HelixJoint(domain, LEFT), HelixJoint(domain, RIGHT)>>
    IN  IF helix_joints = <<UP, DOWN>> THEN [raised |-> "None", value |-> 0 - 1]
        ELSE IF helix_joints = <<UP, UP>> THEN [raised |-> "None", value |-> 0]
        ELSE IF helix_joints = <<DOWN, DOWN>>
        THEN [raised |-> "None", value |-> 0]
        ELSE IF helix_joints = <<DOWN, UP>>
        THEN [raised |-> "None", value |-> 1]
        ELSE [raised |-> "ValueError", value |-> 0]

\* return None
ReturnNone == [raised |-> "None", value |-> <<>>]

\* Strand(self.parent.strands.points()[self.index][side]); None has no points()
StrandOfPoints(k, side) ==
    IF parent.strands = "None"
    THEN [raised |-> "AttributeError", value |-> <<>>]
    ELSE [raised |-> "None", value |-> <<"Strand", k, side>>]

\* domain.py lines 229-245: Domain.left_strand of the domain at position k
left_strand(k) ==
    IF parent.none \/ parent.strands = "truthy"
    THEN ReturnNone
    ELSE StrandOfPoints(k, RIGHT)

\* domain.py lines 247-263: Domain.right_strand of the domain at position k
right_strand(k) ==
    IF parent.none THEN ReturnNone ELSE StrandOfPoints(k, RIGHT)

\* Domain(...) for every domain of the list
DomainInit ==
    /\ pc = "Domain"
    /\ called' = [called EXCEPT !.__init__ =
                     [k \in 1 .. Len(domains) |-> DomainInitRaised(domains[k])]]
    /\ pc' = "theta_s_multiple"
    /\ UNCHANGED <<inputs, parent, ui_vars, angles, x_coords, z_coords,
                   z_index, NEMids, index, strand_direction, i, error, earlier>>

\* domain.theta_s_multiple is read for every domain of the list
ThetaSMultiple ==
    /\ pc = "theta_s_multiple"
    /\ called' = [called EXCEPT !.theta_s_multiple =
                     [k \in 1 .. Len(domains) |-> theta_s_multiple(domains[k])]]
    /\ pc' = "left_strand"
    /\ UNCHANGED <<inputs, parent, ui_vars, angles, x_coords, z_coords,
                   z_index, NEMids, index, strand_direction, i, error, earlier>>

\* domain.left_strand is read for every domain of the list
LeftStrand ==
    /\ pc = "left_strand"
    /\ called' = [called EXCEPT !.left_strand =
                     [k \in 1 .. Len(domains) |-> left_strand(k - 1)]]
    /\ pc' = "right_strand"
    /\ UNCHANGED <<inputs, parent, ui_vars, angles, x_coords, z_coords,
                   z_index, NEMids, index, strand_direction, i, error, earlier>>

\* domain.right_strand is read for every domain of the list
RightStrand ==
    /\ pc = "right_strand"
    /\ called' = [called EXCEPT !.right_strand =
                     [k \in 1 .. Len(domains) |-> right_strand(k - 1)]]
    /\ pc' = "__init__"
    /\ UNCHANGED <<inputs, parent, ui_vars, angles, x_coords, z_coords,
                   z_index, NEMids, index, strand_direction, i, error, earlier>>

\* ------------------------------------------------------ SideView, any input
\* lines 49-62: SideView(domains, T, B, H, ...) with a B that divides T * H
SideViewInit ==
    /\ pc = "__init__"
    /\ B # 0
    /\ pc' = "compute"
    /\ UNCHANGED <<inputs, elsewhere, angles, x_coords, z_coords, z_index,
                   NEMids, index, strand_direction, i, error, earlier>>

\* the exception leaves SideView: nothing is returned
Raise(exception) ==
    /\ pc' = "raised"
    /\ error' = exception
    /\ UNCHANGED <<inputs, elsewhere, angles, x_coords, z_coords, z_index,
                   NEMids, index, strand_direction, i, earlier>>

\* line 55: (T * H) / B with B = 0
InitRaises ==
    /\ pc = "__init__"
    /\ B = 0
    /\ Raise("ZeroDivisionError")

\* lines 73-75: _angles, _x_coords or the first loop of _z_coords raises
ComputeRaises ==
    /\ pc = "compute"
    /\ ComputeRaised # "None"
    /\ Raise(ComputeRaised)

\* lines 195-197: a pass of the loop of _z_coords raises
ZCoordsRaises ==
    /\ pc = "_z_coords"
    /\ z_index < Len(domains)
    /\ ZCoordsRaised # "None"
    /\ Raise(ZCoordsRaised)

NextEdge ==
    \/ DomainInit \/ ThetaSMultiple \/ LeftStrand \/ RightStrand
    \/ SideViewInit \/ InitRaises \/ ComputeRaises \/ ZCoordsRaises
    \/ Next

\* a domain with nothing unusual: interior angle 90 degrees, one point a strand
Plain == Domain(3, <<UP, DOWN>>, 1)

\* interior angles of 0, 90 and 360 degrees with the theta_c of Init
EdgeMultiples == {0, 3, 12}

\* joint values around UP and DOWN
JointValues == (0 - 2) .. 2

\* rings that leave the valid inputs in one respect: an interior or exterior
\* angle of zero; no domain at all or a B of zero or below; a joint that is
\* neither UP nor DOWN; domains that belong to a Subunit
EdgeInputs ==
    \/ /\ domains \in UNION {[1 .. n -> {Domain(m, <<UP, DOWN>>, 1) :
                                            m \in EdgeMultiples}] :
                                 n \in 1 .. MaxDomains}
       /\ B \in 1 .. MaxB
       /\ parent = NoParent
    \/ /\ domains \in {[k \in 1 .. n |-> Plain] : n \in 0 .. MaxDomains}
       /\ B \in (0 - MaxB) .. MaxB
       /\ parent = NoParent
    \/ /\ domains \in UNION {[1 .. n -> {Domain(3, <<l, r>>, 1) :
                                            l \in JointValues,
                                            r \in JointValues}] :
                                 n \in 1 .. MaxDomains}
       /\ B = 2
       /\ parent = NoParent
    \/ /\ domains \in {[k \in 1 .. n |-> Plain] : n \in 1 .. MaxDomains}
       /\ B = 2
       /\ parent \in Parents

\* the domains are still to be built, then the SideView; Z_b is 2 or -2
InitEdge ==
    /\ EdgeInputs
    /\ T = 2
    /\ H = IF B = 0 THEN 1 ELSE IF B < 0 THEN 0 - B ELSE B
    /\ Z_s = 3
    /\ theta_b = Deg(90)
    /\ theta_s = Deg(10)
    /\ theta_c = Deg(30)
    /\ pc = "Domain"
    /\ Locals
    /\ called = Uncalled
    /\ UIStart

SpecEdge == InitEdge /\ [][NextEdge]_vars

\* -------------------------------------------------- the default configuration
\* references/_domains.py: fourteen domains, joints alternating (UP, UP) and
\* (DOWN, DOWN), theta_interior_multiple 9, count 50
DefaultDomains ==
    [k \in 1 .. 14 |->
        Domain(9, IF k % 2 = 1 THEN <<UP, UP>> ELSE <<DOWN, DOWN>>, 50)]

\* config/nucleic_acid.py: the B-DNA profile; H and Z_s in 1/1000 nm
InitDefault ==
    /\ domains = DefaultDomains
    /\ B = 21
    /\ T = 2
    /\ H = 3549
    /\ Z_s = 1260
    /\ theta_b = 342900
    /\ theta_c = 171428
    /\ theta_s = 23000
    /\ Start
    /\ Built
    /\ UIStart

SpecDefault == InitDefault /\ [][Next]_vars

\* ------------------------------------------------------------ DomainsPanel
\* everything but the panel
outside_panel == <<inputs, side_view_vars, domain_vars, click_vars,
                   config_vars, table_vars>>

\* lines 148-150: a slot calls _push_updates; a call already in progress
\* makes it return at once, else it sets the flag and RefreshConfirmer.run
\* waits for the user
Enter(slot) ==
    IF _pushing_updates
    THEN UNCHANGED <<_pushing_updates, pending>>
    ELSE _pushing_updates' = TRUE /\ pending' = slot

\* line 179: table.cell_widget_updated after a cell was edited
CellWidgetUpdated ==
    /\ events < MaxEvents
    /\ events' = events + 1
    /\ table' \in Contents
    /\ Enter("cell_widget_updated")
    /\ UNCHANGED <<current, auto_antiparallel, updated, accepted, declined>>
    /\ UNCHANGED <<push_error, outside_panel>>

\* lines 180 and 191: table.helix_joint_updated after a joint was clicked,
\* while no _push_updates call is in progress; _on_helix_joint_updated runs
\* when _push_updates has returned
HelixJointUpdated ==
    /\ events < MaxEvents
    /\ ~_pushing_updates
    /\ events' = events + 1
    /\ table' \in Contents
    /\ Enter("helix_joint_updated")
    /\ UNCHANGED <<current, auto_antiparallel, updated, accepted, declined>>
    /\ UNCHANGED <<push_error, outside_panel>>

\* lines 180, 191 and 210-212: table.helix_joint_updated while a
\* _push_updates call is in progress: both calls, the one of line 180 and the
\* one setChecked(False) causes through stateChanged, return at once
HelixJointUpdatedInProgress ==
    /\ events < MaxEvents
    /\ _pushing_updates
    /\ events' = events + 1
    /\ table' \in Contents
    /\ auto_antiparallel' = FALSE
    /\ UNCHANGED <<_pushing_updates, pending, current, updated, accepted,
                   declined>>
    /\ UNCHANGED <<push_error, outside_panel>>

\* line 192: auto_antiparallel.stateChanged after the box was toggled
AutoAntiparallelChanged ==
    /\ events < MaxEvents
    /\ events' = events + 1
    /\ auto_antiparallel' = ~auto_antiparallel
    /\ Enter("stateChanged")
    /\ UNCHANGED <<current, table, updated, accepted, declined>>
    /\ UNCHANGED <<push_error, outside_panel>>

\* lines 203-208: the update table button; the modal confirmer keeps buttons
\* from being clicked while a call is in progress
TableUpdateButtonClicked ==
    /\ events < MaxEvents
    /\ pending = "None"
    /\ events' = events + 1
    /\ table' \in Contents
    /\ Enter("update_table_button")
    /\ UNCHANGED <<current, auto_antiparallel, updated, accepted, declined>>
    /\ UNCHANGED <<push_error, outside_panel>>

\* lines 230-246: the load button, with a file chosen in the dialog; when
\* _push_updates returns at once, line 246 follows at once
LoadButtonClicked ==
    /\ events < MaxEvents
    /\ pending = "None"
    /\ events' = events + 1
    /\ table' \in Contents
    /\ Enter("load_domains_button")
    /\ updated' = (IF _pushing_updates THEN updated + 1 ELSE updated)
    /\ UNCHANGED <<current, auto_antiparallel, accepted, declined>>
    /\ UNCHANGED <<push_error, outside_panel>>

\* lines 230-239: the load button, with the file dialog cancelled
LoadCancelled ==
    /\ events < MaxEvents
    /\ pending = "None"
    /\ events' = events + 1
    /\ UNCHANGED <<_pushing_updates, pending, current, table,
                   auto_antiparallel, updated, accepted, declined>>
    /\ UNCHANGED <<push_error, outside_panel>>

\* line 246: what _on_load_button_clicked emits after _push_updates returned
EmittedAfterLoad == IF pending = "load_domains_button" THEN 1 ELSE 0

\* lines 164, 191 and 210-212: _push_updates returns to its slot; after a joint
\* click _on_helix_joint_updated unchecks the box, and if it was checked
\* stateChanged calls _push_updates once more
Return ==
    IF pending = "helix_joint_updated" /\ auto_antiparallel
    THEN /\ auto_antiparallel' = FALSE
         /\ _pushing_updates' = TRUE
         /\ pending' = "stateChanged"
    ELSE /\ UNCHANGED auto_antiparallel
         /\ _pushing_updates' = FALSE
         /\ pending' = "None"

\* the table kept as the user edited it
EditedTable == table

\* line 162: dump_domains(self.runner.managers.domains.current)
RevertedTable == current

\* lines 153-159, 164: RefreshConfirmer.run returns True
ConfirmerAccepts ==
    /\ pending # "None"
    /\ accepted' = accepted + 1
    /\ current' = table
    /\ updated' = updated + 1 + EmittedAfterLoad
    /\ Return
    /\ UNCHANGED <<table, declined, events>>
    /\ UNCHANGED <<push_error, outside_panel>>

\* lines 153, 160-164: RefreshConfirmer.run returns False
ConfirmerDeclines ==
    /\ pending # "None"
    /\ declined' = declined + 1
    /\ table' = RevertedTable
    /\ updated' = updated + EmittedAfterLoad
    /\ Return
    /\ UNCHANGED <<current, accepted, events>>
    /\ UNCHANGED <<push_error, outside_panel>>

\* where lines 153-162 can raise: RefreshConfirmer.run, the domains update,
\* dump_domains after the update, dump_domains after the user declined
RaiseSites == {"RefreshConfirmer.run", "update", "dump_domains", "revert"}

\* lines 148-164 hold no try: an exception of lines 153-162 leaves
\* _push_updates and its slot before line 164, so the flag stays set; the
\* other slot of helix_joint_updated, _on_helix_joint_updated, still runs, and
\* the _push_updates call its setChecked(False) causes returns at once
PushUpdatesRaises ==
    /\ pending # "None"
    /\ \E site \in RaiseSites :
        /\ push_error' = site
        /\ accepted' =
            (IF site \in {"update", "dump_domains"} THEN accepted + 1
             ELSE accepted)
        /\ declined' = (IF site = "revert" THEN declined + 1 ELSE declined)
        /\ current' = (IF site = "dump_domains" THEN table ELSE current)
    /\ pending' = "None"
    /\ auto_antiparallel' =
        (IF pending = "helix_joint_updated" THEN FALSE ELSE auto_antiparallel)
    /\ UNCHANGED <<_pushing_updates, table, updated, events>>
    /\ UNCHANGED outside_panel

NextPanel ==
    \/ CellWidgetUpdated \/ HelixJointUpdated \/ HelixJointUpdatedInProgress
    \/ AutoAntiparallelChanged \/ TableUpdateButtonClicked
    \/ LoadButtonClicked \/ LoadCancelled
    \/ ConfirmerAccepts \/ ConfirmerDeclines \/ PushUpdatesRaises

\* the window opened on the default configuration
SpecPanel == InitDefault /\ [][NextPanel]_vars

\* ------------------------------------------------- the side view Panel
\* everything but the side view panel
outside_click == <<inputs, side_view_vars, domain_vars, panel_vars,
                   config_vars, table_vars>>

\* the user picks a toolbar mode; the GUI thread is free to take the event
ToolbarChanged ==
    /\ click_pc = "idle"
    /\ toolbar' \in Modes \ {toolbar}
    /\ UNCHANGED <<click_pc, worker, worker_thread, worker_steps, handled>>
    /\ UNCHANGED outside_click

\* lines 115-129: the worker points_clicked selects for the toolbar mode
SelectedWorker ==
    IF toolbar = INFORMER THEN "workers.informer"
    ELSE IF toolbar = LINKER THEN "workers.linker"
    ELSE IF toolbar = JUNCTER THEN "workers.juncter"
    ELSE IF toolbar = NICKER THEN "workers.nicker"
    ELSE IF toolbar = HIGHLIGHTER THEN "workers.highlighter"
    ELSE "logger.info"

\* lines 101-130: plot.points_clicked reaches the slot on the GUI thread; the
\* worker is selected and a Thread object is built around it
PointsClicked ==
    /\ click_pc = "idle"
    /\ handled < MaxClicks
    /\ click_pc' = "thread"
    /\ worker' = SelectedWorker
    /\ UNCHANGED <<toolbar, worker_thread, worker_steps, handled>>
    /\ UNCHANGED outside_click

\* line 131: thread.run(), which calls the target on the calling thread; no
\* thread is started
ThreadRun ==
    /\ click_pc = "thread"
    /\ click_pc' = "run"
    /\ worker_thread' = "caller"
    /\ worker_steps' = 0
    /\ UNCHANGED <<toolbar, worker, handled>>
    /\ UNCHANGED outside_click

\* the worker is at work
WorkerStep ==
    /\ click_pc = "run"
    /\ worker_steps < MaxWorkerSteps
    /\ worker_steps' = worker_steps + 1
    /\ UNCHANGED <<toolbar, click_pc, worker, worker_thread, handled>>
    /\ UNCHANGED outside_click

\* the worker returns, then run() and points_clicked return
WorkerReturns ==
    /\ click_pc = "run"
    /\ click_pc' = "idle"
    /\ worker' = "None"
    /\ worker_thread' = "None"
    /\ worker_steps' = 0
    /\ handled' = handled + 1
    /\ UNCHANGED toolbar
    /\ UNCHANGED outside_click

NextClick ==
    ToolbarChanged \/ PointsClicked \/ ThreadRun \/ WorkerStep
    \/ WorkerReturns

\* the window opened on the default configuration
SpecClick == InitDefault /\ [][NextClick]_vars

\* ------------------------------------------------------ the config Panel
\* everything but the config panel
outside_config == <<inputs, side_view_vars, domain_vars, panel_vars,
                    click_vars, table_vars>>

\* line 82 without its test: a confirmer for every request
ShowsDialogAlways == TRUE

\* line 82: (dialog is None) or (not dialog.isVisible())
ShowsDialog == dialog = "None" \/ dialog # "visible"

\* strands.py lines 27-39: recompute() replaces strands.current by the strands
\* of the recomputed double helices; what the user made of them is lost
Recompute ==
    /\ recomputed' = recomputed + 1
    /\ interdomain' = FALSE

\* lines 75-98: warn_and_refresh(top_view, side_view, function)
warn_and_refresh(top_view, side_view) ==
    IF interdomain
    THEN /\ IF ShowsDialog
            THEN dialog' = "visible" /\ shown' = shown + 1
            ELSE UNCHANGED <<dialog, shown>>
         /\ UNCHANGED <<interdomain, plots>>
    ELSE /\ function_calls' = function_calls + 1
         /\ IF side_view
            THEN /\ Recompute
                 /\ side_view_refreshed' = side_view_refreshed + 1
            ELSE UNCHANGED <<interdomain, recomputed, side_view_refreshed>>
         /\ top_view_refreshed' =
                IF top_view THEN top_view_refreshed + 1
                ELSE top_view_refreshed
         /\ UNCHANGED <<dialog, shown>>

\* lines 100-104: the update graphs button
UpdateGraphsClicked ==
    /\ requests < MaxRequests
    /\ requests' = requests + 1
    /\ last' = "update_graphs"
    /\ warn_and_refresh(TRUE, TRUE)
    /\ UNCHANGED outside_config

\* lines 106-115: a tab emitted updated; the two auto update boxes are
\* checked or not
tab_updated ==
    /\ requests < MaxRequests
    /\ requests' = requests + 1
    /\ last' = "tab_updated"
    /\ \E top_view \in BOOLEAN : \E side_view \in BOOLEAN :
            warn_and_refresh(top_view, side_view)
    /\ UNCHANGED outside_config

\* ui/panels/side_view/panel.py lines 121-124: a linker or juncter click
\* joined strands of two domains, or took such a strand apart
StrandsEdited ==
    /\ requests < MaxRequests
    /\ requests' = requests + 1
    /\ last' = "side_view"
    /\ interdomain' = ~interdomain
    /\ UNCHANGED <<dialog, shown, plots>>
    /\ UNCHANGED outside_config

\* QDialog.close() of the visible confirmer
Close ==
    /\ dialog' = "closed"
    /\ shown' = shown - 1

\* lines 234: the cancel button
CancelClicked ==
    /\ dialog = "visible"
    /\ last' = "cancel"
    /\ Close
    /\ UNCHANGED <<interdomain, plots, requests>>
    /\ UNCHANGED outside_config

\* lines 228-231: the change location button: close, then the save dialog
ChangeLocationClicked ==
    /\ dialog = "visible"
    /\ last' = "change_location"
    /\ Close
    /\ UNCHANGED <<interdomain, plots, requests>>
    /\ UNCHANGED outside_config

\* lines 237-241 and 244-251: the slots of refresh and of save_and_refresh,
\* in the order they were connected
Refreshes ==
    /\ function_calls' = function_calls + 1
    /\ Close
    /\ Recompute
    /\ side_view_refreshed' = side_view_refreshed + 1
    /\ top_view_refreshed' = top_view_refreshed + 1

\* lines 237-241: the refresh button
RefreshClicked ==
    /\ dialog = "visible"
    /\ last' = "refresh"
    /\ Refreshes
    /\ UNCHANGED requests
    /\ UNCHANGED outside_config

\* lines 244-251: the save and refresh button
SaveAndRefreshClicked ==
    /\ dialog = "visible"
    /\ last' = "save_and_refresh"
    /\ Refreshes
    /\ UNCHANGED requests
    /\ UNCHANGED outside_config

NextConfig ==
    \/ UpdateGraphsClicked \/ tab_updated \/ StrandsEdited
    \/ CancelClicked \/ ChangeLocationClicked
    \/ RefreshClicked \/ SaveAndRefreshClicked

\* the window opened on the default configuration
SpecConfig == InitDefault /\ [][NextConfig]_vars

\* ------------------------------------------------- the DomainsAnglesTable
\* everything but the table
outside_table == <<inputs, side_view_vars, domain_vars, panel_vars,
                   click_vars, config_vars>>

\* lines 221-222: the range of a theta_m_multiple box
minimum == 1
maximum == 30

\* the theta_m multiples of the domains dumped: the ends of the range, their
\* neighbours and the default
RowValues == {minimum, minimum + 1, 9, maximum}

\* lines 175-241: dump_domains(domains) builds one row per domain; no arrow
\* has been clicked since
DumpDomains ==
    /\ arrows = 0
    /\ \E n \in 1 .. MaxRows : rows' \in [1 .. n -> RowValues]
    /\ rows' # rows
    /\ UNCHANGED arrows
    /\ UNCHANGED outside_table

\* self.rows[j]: the place of row j in rows, j counted as a list index
RowAt(j) == (IF j < 0 THEN j + Len(rows) ELSE j) + 1

\* lines 247-263: surrounding(i), as row indexes
surrounding(row) ==
    IF row = Len(rows) - 1 THEN <<row - 1, row, 0>>
    ELSE IF row = 0 THEN <<Len(rows) - 1, 0, row + 1>>
    ELSE <<row - 1, row, row + 1>>

\* box.setValue(value) of a box with the range of lines 221-222: the box
\* holds the nearest value of its range
setValue(value) ==
    IF value < minimum THEN minimum
    ELSE IF value > maximum THEN maximum
    ELSE value

\* the boxes after box j was set to its value plus change
Changed(boxes, j, change) ==
    [boxes EXCEPT ![RowAt(j)] = setValue(@ + change)]

\* lines 266-271 and 276-280: the three setValue calls, one after the other,
\* on boxes the arrow has ticked by one already: by tick on the box of the
\* row, by -tick on the boxes before and after it
Smoothed(row, tick) ==
    LET ticked == Changed(rows, row, tick)
        first == Changed(ticked, surrounding(row)[1], 0 - tick)
        second == Changed(first, surrounding(row)[2], tick)
    IN  Changed(second, surrounding(row)[3], 0 - tick)

\* lines 265-272 and 284-286: the down arrow of a row is clicked; the box
\* ticks down by one and emits down_button_clicked
down(row) ==
    /\ arrows < MaxArrows
    /\ rows[RowAt(row)] > minimum
    /\ rows' = Smoothed(row, 0 - 1)
    /\ arrows' = arrows + 1
    /\ UNCHANGED outside_table

\* lines 274-281 and 287-289: the up arrow of a row is clicked; the box ticks
\* up by one and emits up_button_clicked
up(row) ==
    /\ arrows < MaxArrows
    /\ rows[RowAt(row)] < maximum
    /\ rows' = Smoothed(row, 1)
    /\ arrows' = arrows + 1
    /\ UNCHANGED outside_table

DownButtonClicked == \E r \in 0 .. (Len(rows) - 1) : down(r)

UpButtonClicked == \E r \in 0 .. (Len(rows) - 1) : up(r)

NextTable == DumpDomains \/ DownButtonClicked \/ UpButtonClicked

\* the window opened on the default configuration
SpecTable == InitDefault /\ [][NextTable]_vars

\* ============================================================== properties
LeftJoint(k) == HelixJoint(DomainAt(k), LEFT)
RightJoint(k) == HelixJoint(DomainAt(k), RIGHT)

\* the loop of _z_coords has created the z sequences of the domain at k
Stitched(k) == k \in Indices /\ k < z_index

\* compute() holds its angle and x sequences
Computed == pc \in {"_z_coords", "zip", "done"}

\* _z_coords is at work, or about to return
Stitching == pc = "_z_coords"

\* compute() has returned its container
Returned == pc = "done"

\* one full cycle of z: B steps of Z_b
Period == ((T * H) \div B) * B

\* the j-th value (from 0) of the z sequence created for a strand
ZSample(k, d, j) == z_coords[k][d].start + j * ((T * H) \div B)

\* the first z the zeroed strand of the domain at k was created with
StartZ(k) == z_coords[k][LeftJoint(k)].start

\* the first position (from 0), among the B x coords of the right-joint strand
\* of the domain at k, that holds their maximum
BoundaryIndex(k) ==
    LET xs == x_coords[k][RightJoint(k)].items
    IN  CHOOSE j \in 0 .. (B - 1) :
            \A h \in 0 .. (B - 1) :
                /\ h < j => Less(xs[h + 1], xs[j + 1])
                /\ h > j => ~Less(xs[j + 1], xs[h + 1])

\* the z of the right-joint strand of the domain at k at that position
BoundaryZ(k) == ZSample(k, RightJoint(k), BoundaryIndex(k))

\* the seed of the domain at k: 0 for the first, else the neighbour's boundary z
Seed(k) == IF k = 0 THEN 0 ELSE BoundaryZ(k - 1)

\* the largest value <= 0 among seed, seed - Period, seed - 2 * Period, ...
LargestNonPositive(seed) ==
    IF seed <= 0 THEN seed ELSE 0 - ((0 - seed) % Period)

\* every NEMid emitted so far, with its place
Emitted ==
    IF NEMids = Unset THEN {}
    ELSE UNION {{<<k, d, h>> : h \in 1 .. Len(NEMids[k][d])} :
                   k \in Indices, d \in {UP, DOWN}}
PointAt(e) == NEMids[e[1]][e[2]][e[3]]

Prev(k) == IF k = 0 THEN Len(domains) - 1 ELSE k - 1

\* _z_coords has created the z sequences of every domain and is to return
AllStitched == Stitching /\ z_index = Len(domains)

C4_Original ==
    \A k \in Indices : \A d \in {UP, DOWN} :
        (Stitched(k) /\ angles[k][d].n = 0) =>
            CountNext(z_coords[k][d], (T * H) \div B) = z_coords[k][d].start

\* C11: within every (domain, direction) list of the returned container the
\* points appear in increasing generation index, and with Z_b > 0 their z
\* values strictly increase from each point to the next.
C11_Ordered ==
    Returned =>
        \A k \in Indices : \A d \in {UP, DOWN} :
            \A h \in 1 .. (Len(NEMids[k][d]) - 1) :
                /\ NEMids[k][d][h].k < NEMids[k][d][h + 1].k
                /\ (T * H) \div B > 0 =>
                       NEMids[k][d][h].z < NEMids[k][d][h + 1].z

\* C11 witness: compute() has returned a strand of three points whose first
\* came after skipped triples
C11_Witness ==
    \E k \in Indices : \E d \in {UP, DOWN} :
        /\ Returned
        /\ (T * H) \div B > 0
        /\ Len(NEMids[k][d]) >= 3
        /\ NEMids[k][d][1].k > 0

Degenerate(k) ==
    LET theta_interior == DomainAt(k).theta_interior_multiple * theta_c
    IN  theta_interior = 0 \/ Deg(360) - theta_interior = 0

\* C13 (as stated): a domain whose theta_exterior or theta_interior equals
\* zero makes x-coordinate generation fail with an error instead of producing
\* x values: no ring with such a domain ever holds x coords.
C13_Original ==
    (\E k \in Indices : Degenerate(k)) => x_coords = Unset

\* C14 (as stated): compute() with an empty domain list ends in an error; no
\* container is returned.
C14_Original ==
    (Len(domains) = 0 /\ B > 0) => ~Returned

NonBinary(k) ==
    LeftJoint(k) \notin {UP, DOWN} \/ RightJoint(k) \notin {UP, DOWN}

\* C16 (as stated): a joint value other than UP (0) or DOWN (1) on either
\* side of a domain always results in an error, at Domain construction, when
\* theta_s_multiple is read, and at generation, and never in generated points.
C16_Original ==
    \A k \in Indices :
        NonBinary(k) =>
            /\ called.__init__ # Unset =>
                   called.__init__[k + 1] = "AssertionError"
            /\ called.theta_s_multiple # Unset =>
                   called.theta_s_multiple[k + 1].raised = "ValueError"
            /\ ~Returned

\* C18 (as stated): Domain.left_strand returns None exactly when the domain
\* has no parent strands container, and otherwise returns a Strand built from
\* the parent's points for this domain's index; it never raises.
C18_Original ==
    called.left_strand # Unset =>
        \A k \in Indices :
            LET result == called.left_strand[k + 1]
                no_container == parent.none \/ parent.strands = "None"
            IN  /\ result.raised = "None"
                /\ result.value = <<>> <=> no_container
                /\ ~no_container => result.value[2] = k

\* C19 (as stated): DomainsPanel.updated is emitted exactly once for each
\* domain update the user accepted and never for one the user declined, on
\* every entry path: whenever no _push_updates call is in progress and none
\* has raised, the number of emissions is the number of accepted updates.
C19_Original ==
    (pending = "None" /\ push_error = "None") => updated = accepted

\* C20 (as stated): the worker selected for a point click runs on a worker
\* thread, concurrently with the caller of points_clicked: while the worker
\* is at work it is never the calling thread that executes it.
C20_Original ==
    click_pc = "run" => worker_thread # "caller"

\* x lies in the closed interval [k, k + 1]
InDomain(x, k) == ~Less(x, <<k, 1>>) /\ ~Less(<<k + 1, 1>>, x)

\* C5: for every domain at position i with 0 < theta_interior < 360 and for
\* both directions, every generated x value lies in [i, i + 1]: the B values
\* of the cycle and the x of every point of the returned container.
C5_XRange ==
    Returned =>
        \A k \in Indices : \A d \in {UP, DOWN} :
            LET theta_interior == DomainAt(k).theta_interior_multiple * theta_c
            IN  (0 < theta_interior /\ theta_interior < Deg(360)) =>
                    /\ \A j \in 1 .. Len(x_coords[k][d].items) :
                           InDomain(x_coords[k][d].items[j], k)
                    /\ \A h \in 1 .. Len(NEMids[k][d]) :
                           InDomain(NEMids[k][d][h].x, k)

\* C5 witness: a domain after the first has emitted a point on its left line
\* and a point on its right line
C5_Witness ==
    \E e1 \in Emitted : \E e2 \in Emitted :
        /\ Returned
        /\ e1[1] > 0
        /\ e2[1] = e1[1]
        /\ PointAt(e1).x = <<e1[1], 1>>
        /\ PointAt(e2).x = <<e1[1] + 1, 1>>

FirstAngle(k, d) == IF d = DomainAt(k).helix_joints[1] THEN 0 ELSE 0 - theta_s

\* C7: the angle sequence of the direction of the left joint is 0, theta_b,
\* 2*theta_b, ..., that of the other direction -theta_s, -theta_s + theta_b,
\* ...; the n-th element is start + n*theta_b, as every point of the
\* returned container shows with the number n of the triple it came from.
C7_Angles ==
    Returned =>
        \A k \in Indices : \A d \in {UP, DOWN} :
            /\ angles[k][d].start = FirstAngle(k, d)
            /\ \A h \in 1 .. Len(NEMids[k][d]) :
                   NEMids[k][d][h].angle
                       = FirstAngle(k, d) + NEMids[k][d][h].k * theta_b

\* C7 witness: a point was emitted, after skipped triples, on the strand that
\* is not the zeroed one of a domain whose two joints differ
C7_Witness ==
    \E e \in Emitted :
        /\ Returned
        /\ LeftJoint(e[1]) # RightJoint(e[1])
        /\ e[2] # LeftJoint(e[1])
        /\ PointAt(e).k > 0

\* C8: compute() emits exactly domain.count points for every domain and
\* direction, so the number emitted, fed back as the count, reproduces itself.
C8_CountRoundTrip ==
    pc = "done" =>
        \A k \in Indices : \A d \in {UP, DOWN} :
            Len(NEMids[k][d]) = DomainAt(k).count

\* C8 witness: compute() has returned for a ring of several domains whose
\* count is the largest drawn
C8_Witness ==
    /\ pc = "done"
    /\ Len(domains) > 1
    /\ \A k \in Indices : Len(NEMids[k][UP]) = MaxCount

\* C9: every point of the returned container has z >= 0, and a skipped triple
\* does not count: i is the number of points emitted for the strand, never
\* above its count.
C9_NonNegativeZ ==
    /\ Returned => \A e \in Emitted : PointAt(e).z >= 0
    /\ pc = "zip" =>
           /\ i = Len(NEMids[index][strand_direction])
           /\ i <= DomainAt(index).count

\* C9 witness: compute() has returned, and a strand whose z sequence nobody
\* had read ahead holds its points after triples below zero were skipped
C9_Witness ==
    \E e \in Emitted :
        /\ Returned
        /\ e[3] = 1
        /\ PointAt(e).k > 0
        /\ z_coords[e[1]][e[2]].n = angles[e[1]][e[2]].n
        /\ Len(NEMids[e[1]][e[2]]) = DomainAt(e[1]).count

\* |x - k| < 0.001 for a fraction x, without forming a product above x
Near(x, k) ==
    LET n == x[1] - k * x[2]
        a == IF n < 0 THEN 0 - n ELSE n
    IN  a <= (x[2] - 1) \div 1000

\* C10: a point of the returned container, of the domain at position i, is
\* junctable iff
\* |x - i| < 0.001, which is |x - round(x)| < 0.001 and round(x) = i; a point
\* on the right line x = i + 1 is not junctable.
C10_Junctable ==
    Returned => \A e \in Emitted :
        LET p == PointAt(e)
        IN  /\ p.junctable <=> Near(p.x, e[1])
            /\ p.junctable <=> (Near(p.x, Round(p.x)) /\ Round(p.x) = e[1])
            /\ p.x = <<e[1] + 1, 1>> => ~p.junctable

\* C10 witness: a domain has emitted a junctable point and a point on its
\* right line
C10_Witness ==
    \E e1 \in Emitted : \E e2 \in Emitted :
        /\ Returned
        /\ e1[1] = e2[1]
        /\ PointAt(e1).junctable
        /\ PointAt(e2).x = <<e2[1] + 1, 1>>

\* the handlers that call warn_and_refresh
UpdateRequests == {"update_graphs", "tab_updated"}

\* C21: while a strand is interdomain an update request calls no update
\* function, recomputes nothing and refreshes no plot, and it shows a
\* RefreshConfirmer only when none is visible; never is more than one
\* RefreshConfirmer visible; and while a strand is interdomain only the
\* refresh and the save and refresh buttons recompute or refresh.
C21_Step ==
    /\ (interdomain /\ last' \in UpdateRequests) =>
            /\ plots' = plots
            /\ shown' = (IF shown = 0 THEN 1 ELSE shown)
    /\ (interdomain /\ plots' # plots) =>
            last' \in {"refresh", "save_and_refresh"}

C21_Confirmer == [](shown <= 1) /\ [][C21_Step]_vars

\* C21 witness: a strand was joined across domains, a request showed the
\* confirmer, and a second request found it visible
C21_Witness ==
    /\ interdomain
    /\ last \in UpdateRequests
    /\ requests = 3
    /\ shown = 1
    /\ dialog = "visible"
    /\ function_calls = 0

\* C22: a step of _push_updates in which the user declines the confirmation
\* leaves the current domains as they were and leaves in the table what the
\* current domains hold.
C22_Step ==
    (declined' # declined /\ push_error' = "None") =>
        /\ current' = current
        /\ table' = current

C27_Original ==
    pending = "None" => ~_pushing_updates

\* C23 (as stated): every point of the returned container carries the angle,
\* the x and the z of one and the same generation index k: angle = a0 +
\* k*theta_b, x = x[k mod B] and z = z0 + k*Z_b, with a0 and z0 the start
\* angle and the start z computed for its (domain, direction).
C23_Original ==
    Returned =>
        \A e \in Emitted :
            LET p == PointAt(e)
                xs == XList(e[1], e[2])
            IN  /\ p.angle = FirstAngle(e[1], e[2]) + p.k * theta_b
                /\ p.x = xs[(p.k % B) + 1]
                /\ p.z = ZSample(e[1], e[2], p.k)

\* C24 (as stated): for every domain of any ring the start z of the zeroed
\* strand is at most one full period below zero: -Z_b*B <= start z <= 0.
C24_Original ==
    Stitching =>
        \A k \in Indices :
            Stitched(k) => (0 - Period <= StartZ(k) /\ StartZ(k) <= 0)

\* C25: compute() terminates: from every input with at least one domain,
\* B >= 1, Z_b > 0, Z_s >= 0 and every count >= 0, the loop of _z_coords and
\* the loop over the three infinite sequences reach their exit and compute()
\* returns its container.
C25_Terminates ==
    (Len(domains) >= 1 /\ B >= 1 /\ Z_b > 0 /\ Z_s >= 0) ~> Returned

\* C25 witness: compute() has returned for a ring of MaxDomains domains with
\* Z_s > 0, after passing over triples below zero and reaching a count > 0
C25_Witness ==
    /\ Returned
    /\ Len(domains) = MaxDomains
    /\ Z_s > 0
    /\ \E e \in Emitted : PointAt(e).k > B /\ e[3] = MaxCount


RECURSIVE SumOf(_)
SumOf(boxes) ==
    IF boxes = <<>> THEN 0 ELSE boxes[1] + SumOf(Tail(boxes))

\* C28 (as stated): a smooth theta_m arrow click leaves the sum of
\* theta_m_multiple over all rows unchanged, for every number of rows >= 1
\* and every row values within the range [1, 30] of the boxes.
C28_Step == arrows' # arrows => SumOf(rows') = SumOf(rows)

C28_Original == [][C28_Step]_vars

====
